---- MODULE Spec2Model ----
(***************************************************************************)
(* Model of todo_manager.py: the JSON task store, the renderer write_txt,  *)
(* the Discord slot registry kept in .env, and the command invocations of  *)
(* main().  One invocation runs from Invoke to Exit; every remote call is  *)
(* a step of its own whose outcome (success or failure) is chosen by the   *)
(* environment.  Spec runs one invocation at a time, SpecTyped is Spec     *)
(* with no input() prompt left empty, SpecConc runs two store commands at  *)
(* the same time on one todo.json.                                         *)
(***************************************************************************)
EXTENDS Integers, Sequences, FiniteSets, TLC

\* ---------------------------------------------------------------- bounds
\* cap on last_id: add is not invoked once last_id has reached it
MaxId == 2

\* ------------------------------------------------------------- constants
NameWidth == 45
CpWidth == 21

PENDING == ""
DONE == "DONE"
None == "none"
NoId == "-"

Rep(n, c) == [i \in 1..n |-> c]

\* strings are sequences of characters
ShortName == <<"a">>
LongName == Rep(NameWidth + 1, "x")
DefaultCp == <<".", ".", ".">>
LongCp == Rep(CpWidth + 1, "y")

Names == {ShortName, LongName}
Cps == {DefaultCp, LongCp}

\* identifiers the caller may type at an input() prompt
InputIds == {"", "A", "B", "C"}

\* webhook links as sequences of tokens, the "/" separators included, so
\* that the required prefix ends with its trailing "/"
WebhookPrefix == <<"https://", "discord.com", "/", "api", "/", "webhooks", "/">>
GoodUrl == <<"https://", "discord.com", "/", "api", "/", "webhooks", "/", "1", "/", "tok">>
BadUrl == <<"http://", "example.com", "/", "hook">>
\* the prefix without its trailing "/"
NearUrl == <<"https://", "discord.com", "/", "api", "/", "webhooks">>
Urls == {GoodUrl, BadUrl, NearUrl}

\* task ids a command line may name
ArgIds == 1..(MaxId + 1)

\* --------------------------------------------------------------- helpers
Ids(tasks) == {tasks[i].id : i \in 1..Len(tasks)}

\* index of the first task whose id is task_id, 0 when there is none
FirstIdx(tasks, task_id) ==
  IF \E i \in 1..Len(tasks) : tasks[i].id = task_id
  THEN CHOOSE i \in 1..Len(tasks) :
         /\ tasks[i].id = task_id
         /\ \A j \in 1..(i - 1) : tasks[j].id # task_id
  ELSE 0

RemoveAt(s, i) == SubSeq(s, 1, i - 1) \o SubSeq(s, i + 1, Len(s))

StartsWith(s, p) == Len(s) >= Len(p) /\ SubSeq(s, 1, Len(p)) = p

\* Python truthiness of an environment value
Falsy(v) == v = None \/ v = ""

\* ------------------------------------------------------------ task store
initial_data == [tasks |-> <<>>, last_id |-> 0]

add_task_reuse(data, name, code_pointer) ==
  LET nid == Len(data.tasks) + 1 IN
  [ok |-> TRUE, id |-> nid,
   data |-> [tasks |-> Append(data.tasks,
                              [id |-> nid, name |-> name,
                               code_pointer |-> code_pointer, status |-> PENDING]),
             last_id |-> nid]]

add_task(data, name, code_pointer) ==
  LET nid == data.last_id + 1 IN
  [ok |-> TRUE, id |-> nid,
   data |-> [tasks |-> Append(data.tasks,
                              [id |-> nid, name |-> name,
                               code_pointer |-> code_pointer, status |-> PENDING]),
             last_id |-> nid]]

tick_task_moves(data, task_id) ==
  LET i == FirstIdx(data.tasks, task_id) IN
  IF i = 0 THEN [ok |-> FALSE, id |-> task_id, data |-> data]
  ELSE [ok |-> TRUE, id |-> task_id,
        data |-> [data EXCEPT !.tasks =
                    Append(RemoveAt(@, i), [@[i] EXCEPT !.status = DONE])]]

tick_task(data, task_id) ==
  LET i == FirstIdx(data.tasks, task_id) IN
  IF i = 0 THEN [ok |-> FALSE, id |-> task_id, data |-> data]
  ELSE IF data.tasks[i].status = DONE
       THEN [ok |-> TRUE, id |-> task_id, data |-> data]
       ELSE [ok |-> TRUE, id |-> task_id,
             data |-> [data EXCEPT !.tasks[i].status = DONE]]

untick_task_toggles(data, task_id) ==
  LET i == FirstIdx(data.tasks, task_id) IN
  IF i = 0 THEN [ok |-> FALSE, id |-> task_id, data |-> data]
  ELSE [ok |-> TRUE, id |-> task_id,
        data |-> [data EXCEPT !.tasks[i].status =
                    IF @ = PENDING THEN DONE ELSE PENDING]]

untick_task(data, task_id) ==
  LET i == FirstIdx(data.tasks, task_id) IN
  IF i = 0 THEN [ok |-> FALSE, id |-> task_id, data |-> data]
  ELSE IF data.tasks[i].status = PENDING
       THEN [ok |-> TRUE, id |-> task_id, data |-> data]
       ELSE [ok |-> TRUE, id |-> task_id,
             data |-> [data EXCEPT !.tasks[i].status = PENDING]]

delete_task_keeps(data, task_id) ==
  LET i == FirstIdx(data.tasks, task_id) IN
  IF i = 0 THEN [ok |-> FALSE, id |-> task_id, data |-> data]
  ELSE [ok |-> TRUE, id |-> task_id,
        data |-> [data EXCEPT !.tasks[i].status = DONE]]

delete_task(data, task_id) ==
  LET i == FirstIdx(data.tasks, task_id) IN
  IF i = 0 THEN [ok |-> FALSE, id |-> task_id, data |-> data]
  ELSE [ok |-> TRUE, id |-> task_id,
        data |-> [data EXCEPT !.tasks = RemoveAt(@, i)]]

edit_task_moves(data, task_id, name, code_pointer) ==
  LET i == FirstIdx(data.tasks, task_id) IN
  IF i = 0 THEN [ok |-> FALSE, id |-> task_id, data |-> data]
  ELSE [ok |-> TRUE, id |-> task_id,
        data |-> [data EXCEPT !.tasks =
                    Append(RemoveAt(@, i),
                           [@[i] EXCEPT !.name = name, !.code_pointer = code_pointer])]]

edit_task(data, task_id, name, code_pointer) ==
  LET i == FirstIdx(data.tasks, task_id) IN
  IF i = 0 THEN [ok |-> FALSE, id |-> task_id, data |-> data]
  ELSE [ok |-> TRUE, id |-> task_id,
        data |-> [data EXCEPT !.tasks[i].name = name,
                              !.tasks[i].code_pointer = code_pointer]]

view_task(data, task_id) == FirstIdx(data.tasks, task_id) # 0

\* -------------------------------------------------------------- renderer
truncate(text, max_length) ==
  IF Len(text) > max_length
  THEN SubSeq(text, 1, max_length - 3) \o <<".", ".", ".">>
  ELSE text

Row(task) ==
  [id |-> task.id, name |-> truncate(task.name, NameWidth),
   code_pointer |-> truncate(task.code_pointer, CpWidth), status |-> task.status]

Rows_any_status(tasks, status) == [i \in 1..Len(tasks) |-> Row(tasks[i])]

RECURSIVE Rows(_, _)
Rows(tasks, status) ==
  IF tasks = <<>> THEN <<>>
  ELSE IF Head(tasks).status = status
       THEN <<Row(Head(tasks))>> \o Rows(Tail(tasks), status)
       ELSE Rows(Tail(tasks), status)

\* a section is its title line and its data rows; header and separator
\* lines are the same in every section
write_txt(data) ==
  [tasks |-> [title |-> "TODO LIST - PENDING:", rows |-> Rows(data.tasks, PENDING)],
   done |-> [title |-> "TODO LIST - DONE:", rows |-> Rows(data.tasks, DONE)]]

NoSection == [title |-> "", rows |-> <<>>]
NoContents == [tasks |-> NoSection, done |-> NoSection]


\* the done section as create_done_message builds it: plain slices, no ellipsis
Slice(text, n) == SubSeq(text, 1, IF Len(text) < n THEN Len(text) ELSE n)

SliceRow(task) ==
  [id |-> task.id, name |-> Slice(task.name, NameWidth),
   code_pointer |-> Slice(task.code_pointer, CpWidth), status |-> task.status]

RECURSIVE SliceRows(_)
SliceRows(tasks) ==
  IF tasks = <<>> THEN <<>>
  ELSE IF Head(tasks).status = DONE
       THEN <<SliceRow(Head(tasks))>> \o SliceRows(Tail(tasks))
       ELSE SliceRows(Tail(tasks))

create_done_content(data) ==
  [title |-> "TODO LIST - DONE:", rows |-> SliceRows(data.tasks)]

\* setup_discord reads the text file back and splits it at the DONE title,
\* which drops that title from the second part
setup_contents(file) ==
  IF file.exists
  THEN [tasks |-> file.c.tasks, done |-> [file.c.done EXCEPT !.title = ""]]
  ELSE [tasks |-> [title |-> "No tasks available.", rows |-> <<>>],
        done |-> [title |-> "No done tasks available.", rows |-> <<>>]]

\* ----------------------------------------------------------------- state
VARIABLES
  json,      \* todo.json: the persisted store
  txt,       \* todo.txt: the rendered text artifact
  env,       \* .env: the persisted registry (url, pending id, done id)
  pc,        \* position of the running invocation, "idle" when none runs
  cmd,       \* the command line of the invocation
  data,      \* the store loaded into memory by the invocation
  g,         \* module globals DISCORD_WEBHOOK_URL / _MESSAGE_ID / _DONE_MESSAGE_ID
  contents,  \* the sections the invocation has rendered or read back
  trace,     \* file writes and remote calls of the invocation, in order
  result,    \* outcome of the invocation, set when it ends
  json0,     \* todo.json as it was when the invocation started
  env0,      \* .env as it was when the invocation started
  supplied,  \* identifiers typed at the input() prompts of the invocation
  assigned,  \* ids handed out by add_task since the store was created
  deleted,   \* ids removed by delete_task since the store was created
  jsize,     \* length of todo.json in bytes; json is the document at its start
  inv,       \* the two invocations that run at the same time (SpecConc)
  race       \* how the two invocations of the round overlapped (SpecConc)

vars == <<json, txt, env, pc, cmd, data, g, contents, trace, result,
          json0, env0, supplied, assigned, deleted, jsize, inv, race>>

\* number of decimal digits of n
RECURSIVE Digits(_)
Digits(n) == IF n < 10 THEN 1 ELSE 1 + Digits(n \div 10)

\* length of a status as json.dump escapes it
StatusLen(status) == IF status = DONE THEN 16 ELSE 0

RECURSIVE TasksLen(_)
TasksLen(tasks) ==
  IF tasks = <<>> THEN 0
  ELSE 90 + Digits(Head(tasks).id) + Len(Head(tasks).name)
       + Len(Head(tasks).code_pointer) + StatusLen(Head(tasks).status)
       + TasksLen(Tail(tasks))

\* length of the document json.dump(data, file, indent=2) writes
DocSize(d) ==
  32 + Digits(d.last_id) + (IF d.tasks = <<>> THEN 0 ELSE 2 + TasksLen(d.tasks))

Procs == {1, 2}
Other(p) == 3 - p

\* an unset (or empty) webhook link
NoUrl == <<>>

NoEnv == [url |-> NoUrl, pending |-> None, done |-> None]

StoreOps == {"add", "tick", "untick", "del", "edit"}

Cmd(op, id, name, cp, url) ==
  [op |-> op, id |-> id, name |-> name, code_pointer |-> cp, url |-> url]

Commands ==
  {Cmd("add", 0, n, c, NoUrl) : n \in Names, c \in Cps}
  \cup {Cmd(op, i, <<>>, <<>>, NoUrl) : op \in {"tick", "untick", "del", "view"}, i \in ArgIds}
  \cup {Cmd("edit", i, nc[1], nc[2], NoUrl) : i \in ArgIds, nc \in Names \X Cps}
  \cup {Cmd(op, 0, <<>>, <<>>, NoUrl) : op \in {"list", "sync", "create_done_message"}}
  \cup {Cmd("setup", 0, <<>>, <<>>, u) : u \in Urls}

Event(ev, id, ok, content) == [ev |-> ev, id |-> id, ok |-> ok, content |-> content]
Local(ev) == Event(ev, NoId, TRUE, NoSection)

IsRemote(e) == e.ev \in {"post", "patch"}
RemoteCalls(tr) == {i \in 1..Len(tr) : IsRemote(tr[i])}

Configured_ignores_done(r) == r.url # NoUrl /\ ~Falsy(r.pending)

Configured(r) == r.url # NoUrl /\ ~Falsy(r.pending) /\ ~Falsy(r.done)

IdleInv ==
  [pc |-> "idle", cmd |-> Cmd("none", 0, <<>>, <<>>, NoUrl),
   data |-> initial_data, base |-> initial_data]

NoRace == [both |-> FALSE, overlap |-> FALSE, order |-> <<>>]

Init ==
  /\ json = initial_data
  /\ txt = [exists |-> FALSE, c |-> NoContents]
  /\ env = NoEnv
  /\ pc = "idle"
  /\ cmd = Cmd("none", 0, <<>>, <<>>, NoUrl)
  /\ data = initial_data
  /\ g = NoEnv
  /\ contents = NoContents
  /\ trace = <<>>
  /\ result = "none"
  /\ json0 = initial_data
  /\ env0 = NoEnv
  /\ supplied = <<>>
  /\ assigned = <<>>
  /\ deleted = {}
  /\ jsize = DocSize(initial_data)
  /\ inv = [p \in Procs |-> IdleInv]
  /\ race = NoRace

\* the invocation ends (sys.exit or falling off main) with outcome r
Finish(r) == pc' = "done" /\ result' = r

\* a process starts: load_dotenv fills the globals, parse_args reads the
\* command line, initialize_json/read_json load the store
Invoke(c) ==
  /\ pc = "idle"
  /\ c.op = "add" => json.last_id < MaxId
  /\ cmd' = c
  /\ g' = env
  /\ data' = json
  /\ contents' = NoContents
  /\ trace' = <<>>
  /\ result' = "running"
  /\ json0' = json
  /\ env0' = env
  /\ supplied' = <<>>
  /\ pc' = "main"
  /\ UNCHANGED <<json, txt, env, assigned, deleted>>
  /\ UNCHANGED <<jsize, inv, race>>

Apply(c, d) ==
  CASE c.op = "add" -> add_task(d, c.name, c.code_pointer)
    [] c.op = "tick" -> tick_task(d, c.id)
    [] c.op = "untick" -> untick_task(d, c.id)
    [] c.op = "del" -> delete_task(d, c.id)
    [] c.op = "edit" -> edit_task(d, c.id, c.name, c.code_pointer)

\* main, the add/tick/untick/del/edit branch
StoreCommand ==
  /\ pc = "main"
  /\ cmd.op \in StoreOps
  /\ LET r == Apply(cmd, data) IN
       IF r.ok
       THEN /\ data' = r.data
            /\ assigned' = IF cmd.op = "add" THEN Append(assigned, r.id) ELSE assigned
            /\ deleted' = IF cmd.op = "del" THEN deleted \cup {r.id} ELSE deleted
            /\ pc' = "write"
            /\ UNCHANGED result
       ELSE /\ Finish("NotFound")
            /\ UNCHANGED <<data, assigned, deleted>>
  /\ UNCHANGED <<json, txt, env, cmd, g, contents, trace, json0, env0, supplied>>
  /\ UNCHANGED <<jsize, inv, race>>

WriteOut_txt_only ==
  /\ pc = "write"
  /\ txt' = [exists |-> TRUE, c |-> write_txt(data)]
  /\ contents' = write_txt(data)
  /\ trace' = trace \o <<Local("write_txt")>>
  /\ pc' = "sync"
  /\ UNCHANGED <<json, env, cmd, data, g, result, json0, env0, supplied, assigned, deleted>>
  /\ UNCHANGED <<jsize, inv, race>>

\* main: write_json, write_txt, then the call of sync_discord_with_contents
WriteOut ==
  /\ pc = "write"
  /\ json' = data
  /\ txt' = [exists |-> TRUE, c |-> write_txt(data)]
  /\ contents' = write_txt(data)
  /\ trace' = trace \o <<Local("write_json"), Local("write_txt")>>
  /\ pc' = "sync"
  /\ UNCHANGED <<env, cmd, data, g, result, json0, env0, supplied, assigned, deleted>>
  /\ jsize' = DocSize(data)
  /\ UNCHANGED <<inv, race>>

RenderOnly_no_sync ==
  /\ pc = "main"
  /\ cmd.op \in {"list", "sync"}
  /\ txt' = [exists |-> TRUE, c |-> write_txt(data)]
  /\ contents' = write_txt(data)
  /\ trace' = Append(trace, Local("write_txt"))
  /\ Finish("ok")
  /\ UNCHANGED <<json, env, cmd, data, g, json0, env0, supplied, assigned, deleted>>
  /\ UNCHANGED <<jsize, inv, race>>

\* list_tasks, and the sync branch of main: render, then sync
RenderOnly ==
  /\ pc = "main"
  /\ cmd.op \in {"list", "sync"}
  /\ txt' = [exists |-> TRUE, c |-> write_txt(data)]
  /\ contents' = write_txt(data)
  /\ trace' = Append(trace, Local("write_txt"))
  /\ pc' = "sync"
  /\ UNCHANGED <<json, env, cmd, data, g, result, json0, env0, supplied, assigned, deleted>>
  /\ UNCHANGED <<jsize, inv, race>>

ViewTask ==
  /\ pc = "main"
  /\ cmd.op = "view"
  /\ Finish(IF view_task(data, cmd.id) THEN "ok" ELSE "NotFound")
  /\ UNCHANGED <<json, txt, env, cmd, data, g, contents, trace, json0, env0,
                 supplied, assigned, deleted>>
  /\ UNCHANGED <<jsize, inv, race>>

\* sync_discord, the guard at its top
SyncNotConfigured ==
  /\ pc = "sync"
  /\ ~Configured(g)
  /\ trace' = Append(trace, Local("sync_discord"))
  /\ Finish("NotConfigured")
  /\ UNCHANGED <<json, txt, env, cmd, data, g, contents, json0, env0,
                 supplied, assigned, deleted>>
  /\ UNCHANGED <<jsize, inv, race>>

EditTasks_goes_on(ok) ==
  /\ pc = "sync"
  /\ Configured(g)
  /\ trace' = trace \o <<Local("sync_discord"),
                         Event("patch", g.pending, ok, contents.tasks)>>
  /\ pc' = "sync_done"
  /\ UNCHANGED <<json, txt, env, cmd, data, g, contents, result, json0, env0,
                 supplied, assigned, deleted>>
  /\ UNCHANGED <<jsize, inv, race>>

\* sync_discord: the PATCH of the tasks message
EditTasks(ok) ==
  /\ pc = "sync"
  /\ Configured(g)
  /\ trace' = trace \o <<Local("sync_discord"),
                         Event("patch", g.pending, ok, contents.tasks)>>
  /\ IF ok THEN pc' = "sync_done" /\ UNCHANGED result
           ELSE Finish("SyncFailedTasks")
  /\ UNCHANGED <<json, txt, env, cmd, data, g, contents, json0, env0,
                 supplied, assigned, deleted>>
  /\ UNCHANGED <<jsize, inv, race>>

\* sync_discord: the PATCH of the done message
EditDone(ok) ==
  /\ pc = "sync_done"
  /\ trace' = Append(trace, Event("patch", g.done, ok, contents.done))
  /\ Finish(IF ok THEN "ok" ELSE "SyncFailedDone")
  /\ UNCHANGED <<json, txt, env, cmd, data, g, contents, json0, env0,
                 supplied, assigned, deleted>>
  /\ UNCHANGED <<jsize, inv, race>>


swap_ids_exchange(r, new_done_message_id) ==
  [r EXCEPT !.pending = r.done, !.done = new_done_message_id]

swap_ids_keep_done(r, new_done_message_id) ==
  [r EXCEPT !.pending = new_done_message_id]

swap_ids_drops_done(r, new_done_message_id) ==
  [r EXCEPT !.pending = new_done_message_id, !.done = None]

\* the role swap of create_done_message: the typed id becomes the tasks
\* message id, the old tasks message id becomes the done message id
swap_ids(r, new_done_message_id) ==
  [r EXCEPT !.pending = new_done_message_id, !.done = r.pending]

\* create_done_message with no webhook link: requests.post raises before
\* anything is sent
CreateDoneNoUrl ==
  /\ pc = "main"
  /\ cmd.op = "create_done_message"
  /\ g.url = NoUrl
  /\ Finish("Crash")
  /\ UNCHANGED <<json, txt, env, cmd, data, g, contents, trace, json0, env0,
                 supplied, assigned, deleted>>
  /\ UNCHANGED <<jsize, inv, race>>

CreateDoneMessage_ends(ok, id) ==
  /\ pc = "main"
  /\ cmd.op = "create_done_message"
  /\ g.url # NoUrl
  /\ IF ok
     THEN /\ trace' = trace \o <<Event("post", NoId, TRUE, create_done_content(data)),
                                 Local("set_key")>>
          /\ supplied' = <<id>>
          /\ g' = swap_ids(g, id)
          /\ env' = [env EXCEPT !.pending = swap_ids(g, id).pending,
                                !.done = swap_ids(g, id).done]
          /\ Finish("ok")
     ELSE /\ trace' = Append(trace, Event("post", NoId, FALSE, create_done_content(data)))
          /\ Finish("CreateFailed")
          /\ UNCHANGED <<supplied, g, env>>
  /\ UNCHANGED <<json, txt, cmd, data, contents, json0, env0, assigned, deleted>>
  /\ UNCHANGED <<jsize, inv, race>>

\* create_done_message: the POST of the new done message, the prompt for
\* its id, the swap and the two set_key calls
CreateDoneMessage(ok, id) ==
  /\ pc = "main"
  /\ cmd.op = "create_done_message"
  /\ g.url # NoUrl
  /\ IF ok
     THEN /\ trace' = trace \o <<Event("post", NoId, TRUE, create_done_content(data)),
                                 Local("set_key")>>
          /\ supplied' = <<id>>
          /\ g' = swap_ids(g, id)
          /\ env' = [env EXCEPT !.pending = swap_ids(g, id).pending,
                                !.done = swap_ids(g, id).done]
          /\ pc' = "write"
          /\ UNCHANGED result
     ELSE /\ trace' = Append(trace, Event("post", NoId, FALSE, create_done_content(data)))
          /\ Finish("CreateFailed")
          /\ UNCHANGED <<supplied, g, env>>
  /\ UNCHANGED <<json, txt, cmd, data, contents, json0, env0, assigned, deleted>>
  /\ UNCHANGED <<jsize, inv, race>>

valid_webhook_scheme_only(webhook_link) ==
  Len(webhook_link) >= 1 /\ webhook_link[1] = WebhookPrefix[1]

\* webhook_link.startswith("https://discord.com/api/webhooks/")
valid_webhook(webhook_link) == StartsWith(webhook_link, WebhookPrefix)

\* setup_discord: the prefix check fails
SetupInvalid ==
  /\ pc = "main"
  /\ cmd.op = "setup"
  /\ ~valid_webhook(cmd.url)
  /\ Finish("InvalidInput")
  /\ UNCHANGED <<json, txt, env, cmd, data, g, contents, trace, json0, env0,
                 supplied, assigned, deleted>>
  /\ UNCHANGED <<jsize, inv, race>>

SetupPostTasks_saves_early(ok, id) ==
  /\ pc = "main"
  /\ cmd.op = "setup"
  /\ valid_webhook(cmd.url)
  /\ contents' = setup_contents(txt)
  /\ trace' = Append(trace, Event("post", NoId, ok, setup_contents(txt).tasks))
  /\ IF ok
     THEN /\ g' = [g EXCEPT !.url = cmd.url, !.pending = id]
          /\ env' = [env EXCEPT !.url = cmd.url, !.pending = id]
          /\ supplied' = <<id>>
          /\ pc' = "setup_done"
          /\ UNCHANGED result
     ELSE /\ g' = [g EXCEPT !.url = cmd.url]
          /\ env' = [env EXCEPT !.url = cmd.url]
          /\ Finish("CreateFailed")
          /\ UNCHANGED supplied
  /\ UNCHANGED <<json, txt, cmd, data, json0, env0, assigned, deleted>>
  /\ UNCHANGED <<jsize, inv, race>>

\* setup_discord: prefix check, read-back of the text file, the POST of the
\* tasks message and the prompt for its id
SetupPostTasks(ok, id) ==
  /\ pc = "main"
  /\ cmd.op = "setup"
  /\ valid_webhook(cmd.url)
  /\ contents' = setup_contents(txt)
  /\ trace' = Append(trace, Event("post", NoId, ok, setup_contents(txt).tasks))
  /\ IF ok
     THEN /\ g' = [g EXCEPT !.url = cmd.url, !.pending = id]
          /\ supplied' = <<id>>
          /\ pc' = "setup_done"
          /\ UNCHANGED result
     ELSE /\ g' = [g EXCEPT !.url = cmd.url]
          /\ Finish("CreateFailed")
          /\ UNCHANGED supplied
  /\ UNCHANGED <<json, txt, env, cmd, data, json0, env0, assigned, deleted>>
  /\ UNCHANGED <<jsize, inv, race>>

\* setup_discord: the POST of the done message, the prompt for its id and
\* the three set_key calls
SetupPostDone(ok, id) ==
  /\ pc = "setup_done"
  /\ IF ok
     THEN /\ trace' = trace \o <<Event("post", NoId, TRUE, contents.done),
                                 Local("set_key")>>
          /\ g' = [g EXCEPT !.done = id]
          /\ env' = [g EXCEPT !.done = id]
          /\ supplied' = Append(supplied, id)
          /\ Finish("ok")
     ELSE /\ trace' = Append(trace, Event("post", NoId, FALSE, contents.done))
          /\ Finish("CreateFailed")
          /\ UNCHANGED <<g, env, supplied>>
  /\ UNCHANGED <<json, txt, cmd, data, contents, json0, env0, assigned, deleted>>
  /\ UNCHANGED <<jsize, inv, race>>

\* the process is gone; nothing but the files outlives it
Exit ==
  /\ pc = "done"
  /\ pc' = "idle"
  /\ cmd' = Cmd("none", 0, <<>>, <<>>, NoUrl)
  /\ data' = initial_data
  /\ g' = NoEnv
  /\ contents' = NoContents
  /\ trace' = <<>>
  /\ result' = "none"
  /\ json0' = initial_data
  /\ env0' = NoEnv
  /\ supplied' = <<>>
  /\ UNCHANGED <<json, txt, env, assigned, deleted>>
  /\ UNCHANGED <<jsize, inv, race>>

Next ==
  \/ \E c \in Commands : Invoke(c)
  \/ StoreCommand
  \/ WriteOut
  \/ RenderOnly
  \/ ViewTask
  \/ SyncNotConfigured
  \/ \E ok \in BOOLEAN : EditTasks(ok)
  \/ \E ok \in BOOLEAN : EditDone(ok)
  \/ CreateDoneNoUrl
  \/ \E ok \in BOOLEAN, id \in InputIds : CreateDoneMessage(ok, id)
  \/ SetupInvalid
  \/ \E ok \in BOOLEAN, id \in InputIds : SetupPostTasks(ok, id)
  \/ \E ok \in BOOLEAN, id \in InputIds : SetupPostDone(ok, id)
  \/ Exit

Spec == Init /\ [][Next]_vars

\* the callers that never leave an input() prompt empty
TypedIds == InputIds \ {""}

NextTyped ==
  \/ \E c \in Commands : Invoke(c)
  \/ StoreCommand
  \/ WriteOut
  \/ RenderOnly
  \/ ViewTask
  \/ SyncNotConfigured
  \/ \E ok \in BOOLEAN : EditTasks(ok)
  \/ \E ok \in BOOLEAN : EditDone(ok)
  \/ CreateDoneNoUrl
  \/ \E ok \in BOOLEAN, id \in TypedIds : CreateDoneMessage(ok, id)
  \/ SetupInvalid
  \/ \E ok \in BOOLEAN, id \in TypedIds : SetupPostTasks(ok, id)
  \/ \E ok \in BOOLEAN, id \in TypedIds : SetupPostDone(ok, id)
  \/ Exit

SpecTyped == Init /\ [][NextTyped]_vars

\* ------------------------------------------- two invocations at one time
\* Two processes run main on the same todo.json.  write_json is open(path,
\* 'w'), which empties the file, followed by json.dump and close, which put
\* the whole document (it is far smaller than the write buffer) at offset 0
\* of the process's own file position.

seqvars == <<env, pc, cmd, data, g, contents, trace, result, json0, env0,
             supplied, assigned, deleted>>

\* the store commands the two invocations are given
ConcCommands ==
  {Cmd("add", 0, n, DefaultCp, NoUrl) : n \in Names}
  \cup {Cmd(op, i, <<>>, <<>>, NoUrl) : op \in {"tick", "del"}, i \in 1..MaxId}
  \cup {Cmd("edit", i, LongName, DefaultCp, NoUrl) : i \in 1..MaxId}

\* todo.json holds exactly one document
FileOk == jsize = DocSize(json)

\* initialize_json and read_json; json.load fails on an empty file and on
\* a document followed by more bytes
Load(p, c) ==
  /\ inv[p].pc = "idle"
  /\ c.op = "add" => json.last_id < MaxId
  /\ inv' = [inv EXCEPT ![p] =
               IF FileOk
               THEN [pc |-> "loaded", cmd |-> c, data |-> json, base |-> json]
               ELSE [pc |-> "exited", cmd |-> c, data |-> initial_data,
                     base |-> initial_data]]
  /\ race' = IF inv[Other(p)].pc = "idle" THEN NoRace
             ELSE IF FileOk /\ inv[Other(p)].pc \in {"loaded", "mutated"}
                  THEN [race EXCEPT !.both = TRUE]
                  ELSE race
  /\ UNCHANGED <<json, jsize, txt, seqvars>>

\* main, the add/tick/untick/del/edit branch
Mutate(p) ==
  /\ inv[p].pc = "loaded"
  /\ LET r == Apply(inv[p].cmd, inv[p].data) IN
       inv' = [inv EXCEPT ![p].pc = IF r.ok THEN "mutated" ELSE "exited",
                          ![p].data = r.data]
  /\ UNCHANGED <<json, jsize, txt, race, seqvars>>

\* write_json: open(file_path, 'w')
OpenJson(p) ==
  /\ inv[p].pc = "mutated"
  /\ inv' = [inv EXCEPT ![p].pc = "opened"]
  /\ jsize' = 0
  /\ race' = [race EXCEPT !.overlap = @ \/ inv[Other(p)].pc = "opened"]
  /\ UNCHANGED <<json, txt, seqvars>>

\* write_json: json.dump and close, then write_txt; the sync that follows
\* touches neither file
DumpJson(p) ==
  /\ inv[p].pc = "opened"
  /\ inv' = [inv EXCEPT ![p].pc = "exited"]
  /\ json' = inv[p].data
  /\ jsize' = IF jsize > DocSize(inv[p].data) THEN jsize ELSE DocSize(inv[p].data)
  /\ txt' = [exists |-> TRUE, c |-> write_txt(inv[p].data)]
  /\ race' = [race EXCEPT !.order = Append(@, p)]
  /\ UNCHANGED seqvars

\* both processes are gone
RoundEnd ==
  /\ \A p \in Procs : inv[p].pc \in {"idle", "exited"}
  /\ \E p \in Procs : inv[p].pc = "exited"
  /\ inv' = [p \in Procs |-> IdleInv]
  /\ race' = NoRace
  /\ UNCHANGED <<json, jsize, txt, seqvars>>

NextConc ==
  \/ \E p \in Procs, c \in ConcCommands : Load(p, c)
  \/ \E p \in Procs : Mutate(p)
  \/ \E p \in Procs : OpenJson(p)
  \/ \E p \in Procs : DumpJson(p)
  \/ RoundEnd

SpecConc == Init /\ [][NextConc]_vars

TypeOK ==
  /\ pc \in {"idle", "done", "main", "write", "sync", "sync_done", "setup_done"}
  /\ json.last_id \in 0..MaxId
  /\ Len(json.tasks) <= MaxId


\* ================================================================ claims

HasBefore(tr, first, then) ==
  \E i, j \in 1..Len(tr) : i < j /\ tr[i].ev = first /\ tr[j].ev = then

\* C1: the ids returned by successive add operations are 1, 2, 3, ...,
\* strictly increasing, and no id is handed out twice, also after the task
\* holding it (the highest one included) was deleted.
C1_IdsIncrease ==
  /\ \A i \in 1..Len(assigned) : assigned[i] = i
  /\ \A i, j \in 1..Len(assigned) : i < j => assigned[i] < assigned[j]
  /\ \A i \in 1..Len(json.tasks) : json.tasks[i].id \in 1..json.last_id

\* an add that runs after the task with the highest id was deleted
C1_Witness ==
  /\ pc = "write"
  /\ cmd.op = "add"
  /\ json.tasks = <<>>
  /\ json.last_id = 1
  /\ deleted = {1}
  /\ assigned = <<1, 2>>

\* a create_done_message invocation whose POST succeeded and whose id was typed
Swapped == cmd.op = "create_done_message" /\ supplied # <<>>

\* C2 (as stated): from PENDING=A, DONE=B, a successful create_done_message
\* with the supplied identifier C leaves the registry at PENDING=B, DONE=C.
C2_AsStated ==
  Swapped => env.pending = env0.done /\ env.done = supplied[1]

\* C2 (amended): from PENDING=A, DONE=B, a successful create_done_message
\* with the supplied identifier C leaves the registry at PENDING=C, DONE=A.
C2_Amended ==
  Swapped => env.pending = supplied[1] /\ env.done = env0.pending

C2_Witness ==
  /\ Swapped
  /\ pc = "write"
  /\ env0.pending = "A"
  /\ env0.done = "B"
  /\ supplied = <<"C">>
  /\ env.pending = "C"
  /\ env.done = "A"

\* C3: after a successful create_done_message from PENDING=A, DONE=B with
\* the new identifier C, B is assigned to no role, A is assigned to the DONE
\* role and C to the PENDING role, and the globals the rest of the
\* invocation uses and the persisted .env hold that same assignment.
C3_Protocol ==
  Swapped =>
    /\ g.done = env0.pending
    /\ g.pending = supplied[1]
    /\ env0.done \notin {env0.pending, supplied[1]} => env0.done \notin {g.pending, g.done}
    /\ env = g
    /\ env.url = env0.url

C3_Witness ==
  /\ Swapped
  /\ pc = "done"
  /\ result = "ok"
  /\ env0.pending = "A"
  /\ env0.done = "B"
  /\ supplied = <<"C">>
  /\ g.pending = "C"
  /\ g.done = "A"
  /\ "B" \notin {env.pending, env.done}

\* C4: whenever both roles have an identifier, the PENDING identifier
\* differs from the DONE identifier, whatever identifiers the caller typed.
C4_Distinct ==
  (env.pending # None /\ env.done # None) => env.pending # env.done

\* the store command c, applied to the store before, shows in the store after
Mutated(c, before, after) ==
  CASE c.op = "add" ->
         /\ Len(after.tasks) = Len(before.tasks) + 1
         /\ after.tasks[Len(after.tasks)].name = c.name
         /\ after.tasks[Len(after.tasks)].code_pointer = c.code_pointer
         /\ after.last_id = before.last_id + 1
    [] c.op = "tick" ->
         \E i \in 1..Len(after.tasks) :
           after.tasks[i].id = c.id /\ after.tasks[i].status = DONE
    [] c.op = "untick" ->
         \E i \in 1..Len(after.tasks) :
           after.tasks[i].id = c.id /\ after.tasks[i].status = PENDING
    [] c.op = "del" ->
         /\ c.id \in Ids(before.tasks)
         /\ c.id \notin Ids(after.tasks)
    [] c.op = "edit" ->
         \E i \in 1..Len(after.tasks) :
           /\ after.tasks[i].id = c.id
           /\ after.tasks[i].name = c.name
           /\ after.tasks[i].code_pointer = c.code_pointer

SyncErrors == {"NotConfigured", "SyncFailedTasks", "SyncFailedDone"}

\* C5: a store command that succeeds on the store has written the store
\* before its first remote call, and when the sync then fails the written
\* store still holds the mutation.
C5_PersistFirst ==
  cmd.op \in StoreOps =>
    /\ \A i \in RemoteCalls(trace) :
         \E j \in 1..(i - 1) : trace[j].ev = "write_json"
    /\ RemoteCalls(trace) # {} => json = data /\ Mutated(cmd, json0, json)
    /\ (pc = "done" /\ result \in SyncErrors) => json = data /\ Mutated(cmd, json0, json)

C5_Witness ==
  /\ pc = "done"
  /\ cmd.op = "del"
  /\ result = "SyncFailedTasks"
  /\ cmd.id \in Ids(json0.tasks)
  /\ cmd.id \notin Ids(json.tasks)

\* the registry r lacks the endpoint, the PENDING id or the DONE id
Unconfigured(r) ==
  \/ r.url = NoUrl
  \/ r.pending \in {None, ""}
  \/ r.done \in {None, ""}

\* C6: a sync entered while the registry is UNCONFIGURED ends with
\* NotConfigured and issues no remote call, neither edit nor create.
C6_NotConfigured ==
  \A i \in 1..Len(trace) :
    (trace[i].ev = "sync_discord" /\ Unconfigured(g)) =>
      /\ pc = "done"
      /\ result = "NotConfigured"
      /\ \A j \in RemoteCalls(trace) : j < i
      /\ cmd.op # "create_done_message" => RemoteCalls(trace) = {}

C6_Witness ==
  /\ pc = "done"
  /\ cmd.op = "sync"
  /\ env0.url # NoUrl
  /\ env0.done = ""
  /\ result = "NotConfigured"
  /\ trace = <<Local("write_txt"), Local("sync_discord")>>

IdOps == {"tick", "untick", "del", "edit", "view"}

\* C7: once delete(id) has succeeded, every later tick, untick, delete, edit
\* or view of that id ends with NotFound, whatever ran in between.
C7_DeletedStaysGone ==
  [][(pc = "main" /\ cmd.op \in IdOps /\ cmd.id \in deleted)
       => (pc' = "done" /\ result' = "NotFound" /\ json' = json)]_vars

C7_Witness ==
  /\ pc = "done"
  /\ cmd.op = "edit"
  /\ cmd.id \in deleted
  /\ result = "NotFound"
  /\ json.last_id > cmd.id
  /\ json.tasks # <<>>

\* C8: for every store and every id in it, tick(id) followed by untick(id)
\* leaves that task PENDING and leaves its name and code_pointer, every
\* other task, the task order and last_id as they were before the tick.
C8_TickUntick ==
  \A id \in Ids(json.tasks) :
    LET t == tick_task(json, id)
        u == untick_task(t.data, id)
    IN /\ t.ok
       /\ u.ok
       /\ u.data.last_id = json.last_id
       /\ Len(u.data.tasks) = Len(json.tasks)
       /\ \A i \in 1..Len(json.tasks) :
            /\ u.data.tasks[i].id = json.tasks[i].id
            /\ u.data.tasks[i].name = json.tasks[i].name
            /\ u.data.tasks[i].code_pointer = json.tasks[i].code_pointer
            /\ u.data.tasks[i].status =
                 IF json.tasks[i].id = id THEN PENDING ELSE json.tasks[i].status

\* an untick invocation that undid an earlier tick of the first of two tasks
C8_Witness ==
  /\ pc = "done"
  /\ cmd.op = "untick"
  /\ Len(json0.tasks) = 2
  /\ json0.tasks[1].id = cmd.id
  /\ json0.tasks[1].status = DONE
  /\ json0.tasks[2].status = DONE
  /\ json.tasks[1].status = PENDING
  /\ json.tasks[2] = json0.tasks[2]

\* C9: every add, tick, untick, delete and edit invocation that succeeds on
\* the store runs the sync after the store is written (and, when the
\* registry is configured, issues the edit of the PENDING slot); list-all
\* runs the sync as well; view of a single task issues no remote call.
C9_SyncAfterPersist ==
  pc = "done" =>
    /\ (cmd.op \in StoreOps /\ result # "NotFound") =>
         /\ HasBefore(trace, "write_json", "sync_discord")
         /\ ~Unconfigured(env) => HasBefore(trace, "sync_discord", "patch")
    /\ cmd.op = "list" =>
         /\ \E i \in 1..Len(trace) : trace[i].ev = "sync_discord"
         /\ ~Unconfigured(env) => HasBefore(trace, "sync_discord", "patch")
    /\ cmd.op = "view" => trace = <<>>

C9_Witness ==
  /\ pc = "done"
  /\ cmd.op = "tick"
  /\ result = "ok"
  /\ Cardinality(RemoteCalls(trace)) = 2
  /\ HasBefore(trace, "write_json", "patch")

\* C10 (as stated): a create_done_message invocation issues exactly one
\* remote call, the create, and no edit.
C10_AsStated ==
  (pc = "done" /\ Swapped) =>
    /\ Cardinality(RemoteCalls(trace)) = 1
    /\ \A i \in 1..Len(trace) : trace[i].ev # "patch"

\* C10 (amended): the create_done_message function issues exactly one
\* remote call, the create, and no edit; when the create succeeded the same
\* invocation goes on to write the store, render and run the sync, and every
\* edit of the invocation is issued by that sync, after the role swap.
C10_Amended ==
  (cmd.op = "create_done_message" /\ g.url # NoUrl) =>
    /\ pc = "write" => trace = <<Event("post", NoId, TRUE, create_done_content(data)),
                                 Local("set_key")>>
    /\ result = "CreateFailed" =>
         trace = <<Event("post", NoId, FALSE, create_done_content(data))>>
    /\ \A i \in 1..Len(trace) :
         /\ trace[i].ev = "post" => i = 1
         /\ trace[i].ev = "patch" =>
              /\ Swapped
              /\ \E j \in 1..(i - 1) : trace[j].ev = "sync_discord"
              /\ trace[i].id \in {g.pending, g.done}
    /\ (pc = "done" /\ Swapped) => HasBefore(trace, "set_key", "sync_discord")

C10_Witness ==
  /\ pc = "done"
  /\ Swapped
  /\ result = "ok"
  /\ Cardinality(RemoteCalls(trace)) = 3
  /\ trace[Len(trace)].ev = "patch"
  /\ trace[Len(trace)].id = env0.pending


\* C11: setup changes the persisted registry only after both create calls
\* succeeded and both identifiers were typed, create_done_message only after
\* its create call succeeded; when a create call fails the invocation ends
\* there, with the persisted registry as it was and no further remote call.
C11_RegistryAfterCreates ==
  pc # "idle" =>
    /\ env # env0 =>
         \/ /\ cmd.op = "setup"
            /\ Len(supplied) = 2
            /\ Cardinality({i \in RemoteCalls(trace) : trace[i].ev = "post" /\ trace[i].ok}) = 2
         \/ /\ cmd.op = "create_done_message"
            /\ Len(supplied) = 1
            /\ trace[1].ev = "post"
            /\ trace[1].ok
    /\ \A i \in 1..Len(trace) :
         (trace[i].ev = "post" /\ ~trace[i].ok) =>
           /\ i = Len(trace)
           /\ pc = "done"
           /\ result = "CreateFailed"
           /\ env = env0

\* a setup on a configured registry whose second create fails
C11_Witness ==
  /\ pc = "done"
  /\ cmd.op = "setup"
  /\ result = "CreateFailed"
  /\ Len(trace) = 2
  /\ trace[1].ok
  /\ supplied = <<"C">>
  /\ env0.pending = "A"
  /\ env = env0

\* C12: setup with a link that lacks the required URL prefix ends with the
\* input-validation error before any remote call and leaves the registry
\* as it was.
C12_InvalidEndpoint ==
  (cmd.op = "setup" /\ cmd.url \in {BadUrl, NearUrl}) =>
    /\ pc \in {"main", "done"}
    /\ trace = <<>>
    /\ env = env0
    /\ g = env0
    /\ pc = "done" => result = "InvalidInput"

C12_Witness ==
  /\ pc = "done"
  /\ cmd.op = "setup"
  /\ cmd.url = NearUrl
  /\ result = "InvalidInput"
  /\ env.pending = "A"


\* position of the sync_discord call in the trace, 0 when sync was not entered
SyncAt(tr) ==
  IF \E i \in 1..Len(tr) : tr[i].ev = "sync_discord"
  THEN CHOOSE i \in 1..Len(tr) : tr[i].ev = "sync_discord"
  ELSE 0

\* what the remote message id holds after the edits of the trace: the
\* content of the last edit of it that succeeded
Written(tr, id) ==
  LET hits == {i \in 1..Len(tr) : tr[i].ev = "patch" /\ tr[i].ok /\ tr[i].id = id} IN
  IF hits = {} THEN NoSection
  ELSE tr[CHOOSE i \in hits : \A j \in hits : j <= i].content

\* C13: in a sync from the CONFIGURED state the edit of the PENDING slot
\* comes first, the edit of the DONE slot is issued exactly when the PENDING
\* edit succeeded, a failed edit ends the invocation with SyncFailed and is
\* not retried, so a sync issues at most two remote calls, and when the
\* PENDING edit succeeded and the DONE edit failed the PENDING slot keeps
\* the content just written.
C13_SyncOrder ==
  LET s == SyncAt(trace) IN
  (s > 0 /\ ~Unconfigured(g)) =>
    /\ Len(trace) \in {s + 1, s + 2}
    /\ trace[s + 1] = Event("patch", g.pending, trace[s + 1].ok, contents.tasks)
    /\ Len(trace) = s + 2 =>
         /\ trace[s + 1].ok
         /\ trace[s + 2] = Event("patch", g.done, trace[s + 2].ok, contents.done)
         /\ pc = "done"
         /\ result = IF trace[s + 2].ok THEN "ok" ELSE "SyncFailedDone"
         /\ ~trace[s + 2].ok => Written(trace, g.pending) = contents.tasks
    /\ Len(trace) = s + 1 =>
         IF trace[s + 1].ok
         THEN pc = "sync_done"
         ELSE pc = "done" /\ result = "SyncFailedTasks"

C13_Witness ==
  /\ pc = "done"
  /\ cmd.op = "tick"
  /\ result = "SyncFailedDone"
  /\ g.pending = "A"
  /\ g.done = "B"
  /\ Written(trace, "A") = write_txt(json).tasks
  /\ Written(trace, "B") = NoSection

\* C14: after an invocation in the CONFIGURED state whose sync ended with
\* both edits successful, the remote message addressed by the PENDING
\* identifier holds the pending section and the one addressed by the DONE
\* identifier holds the done section of the persisted store.
C14_Reconciled ==
  (pc = "done" /\ result = "ok" /\ SyncAt(trace) > 0) =>
    /\ Written(trace, env.pending) = write_txt(json).tasks
    /\ Written(trace, env.done) = write_txt(json).done

\* the same with the two roles holding different identifiers
C14_DistinctIds ==
  (pc = "done" /\ result = "ok" /\ SyncAt(trace) > 0 /\ env.pending # env.done) =>
    /\ Written(trace, env.pending) = write_txt(json).tasks
    /\ Written(trace, env.done) = write_txt(json).done


\* the role whose section the i-th event of the trace carries
RoleAt(c, tr, i) ==
  CASE tr[i].ev = "patch" -> IF i = SyncAt(tr) + 1 THEN "tasks" ELSE "done"
    [] tr[i].ev = "post" /\ c.op = "setup" -> IF i = 1 THEN "tasks" ELSE "done"
    [] OTHER -> "done"

Rendered(d, role) == IF role = "tasks" THEN write_txt(d).tasks ELSE write_txt(d).done

\* C15: the content sent by every remote call (the two creates of setup,
\* the two edits of sync, the create of create_done_message) is the section
\* the renderer returns for that role on the persisted store.
C15_SentIsRendered ==
  \A i \in RemoteCalls(trace) :
    trace[i].content = Rendered(json, RoleAt(cmd, trace, i))

\* the part of it that the edits of sync satisfy
C15_EditsAreRendered ==
  \A i \in RemoteCalls(trace) :
    trace[i].ev = "patch" => trace[i].content = Rendered(json, RoleAt(cmd, trace, i))

\* the create of create_done_message differs from the renderer exactly in
\* how it cuts long fields
C15_CreateDoneDiffers ==
  (cmd.op = "create_done_message" /\ trace # <<>>) =>
    (trace[1].content = write_txt(json).done
       <=> \A i \in 1..Len(json.tasks) :
             json.tasks[i].status = DONE =>
               /\ Len(json.tasks[i].name) <= NameWidth
               /\ Len(json.tasks[i].code_pointer) <= CpWidth)

\* every task is found in exactly one section, the one of its status
InOneSection(d) ==
  LET r == write_txt(d)
      RowsOf(sec, id) == {k \in 1..Len(sec.rows) : sec.rows[k].id = id}
  IN \A i \in 1..Len(d.tasks) :
       LET t == d.tasks[i] IN
       /\ Cardinality(RowsOf(r.tasks, t.id)) = (IF t.status = PENDING THEN 1 ELSE 0)
       /\ Cardinality(RowsOf(r.done, t.id)) = (IF t.status = DONE THEN 1 ELSE 0)

\* the rows of a section follow the order of their tasks in the store
InStoreOrder(d, sec) ==
  \A j, k \in 1..Len(sec.rows) :
    j < k => FirstIdx(d.tasks, sec.rows[j].id) < FirstIdx(d.tasks, sec.rows[k].id)

\* C16: for every reachable store each task is a row of exactly one of the
\* two rendered sections (pending iff PENDING, done iff DONE), the rows of
\* each section are in store order, and every rendering of the same store
\* is the same: the text file, whenever it was written, holds the sections
\* of the persisted store.
C16_Partition ==
  /\ InOneSection(json)
  /\ InOneSection(data)
  /\ Len(write_txt(json).tasks.rows) + Len(write_txt(json).done.rows) = Len(json.tasks)
  /\ InStoreOrder(json, write_txt(json).tasks)
  /\ InStoreOrder(json, write_txt(json).done)
  /\ txt.exists => txt.c = write_txt(json)

\* add, then tick 1: one done row with id 1, no pending row
C16_Witness ==
  /\ pc = "done"
  /\ cmd.op = "tick"
  /\ cmd.id = 1
  /\ json0.tasks # <<>>
  /\ json0.tasks[1].status = PENDING
  /\ json.last_id = 1
  /\ Len(txt.c.done.rows) = 1
  /\ txt.c.done.rows[1].id = 1
  /\ txt.c.tasks.rows = <<>>


TargetOps == {"tick", "untick", "del", "edit"}

\* the status the store has for id, "absent" when no task has it
StatusOf(d, id) ==
  IF \E i \in 1..Len(d.tasks) : d.tasks[i].id = id
  THEN d.tasks[CHOOSE i \in 1..Len(d.tasks) : d.tasks[i].id = id].status
  ELSE "absent"

\* C17: tick, untick, delete and edit of an id that no task has end with
\* NotFound, leave the persisted store, the text file and the registry as
\* they were and issue no remote call; tick of a DONE task and untick of a
\* PENDING task are not errors and leave the task collection as it was.
C17_NotFoundIsInert ==
  [][(pc = "main" /\ cmd.op \in TargetOps) =>
       /\ StatusOf(data, cmd.id) = "absent" =>
            /\ pc' = "done"
            /\ result' = "NotFound"
            /\ json' = json
            /\ txt' = txt
            /\ env' = env
            /\ trace' = <<>>
       /\ ((cmd.op = "tick" /\ StatusOf(data, cmd.id) = DONE)
             \/ (cmd.op = "untick" /\ StatusOf(data, cmd.id) = PENDING)) =>
            /\ pc' = "write"
            /\ result' # "NotFound"
            /\ data' = data
            /\ json' = json]_vars

C17_Witness ==
  /\ pc = "done"
  /\ cmd.op = "del"
  /\ cmd.id \notin Ids(json.tasks)
  /\ json.tasks # <<>>
  /\ txt.exists
  /\ env.pending = "A"
  /\ result = "NotFound"
  /\ trace = <<>>

\* the store before and the store after the command c differ as c allows
Frame(c, before, after) ==
  LET n == Len(before.tasks) IN
  /\ after.last_id = before.last_id
  /\ CASE c.op = "del" ->
            \E k \in 1..n :
              /\ before.tasks[k].id = c.id
              /\ Len(after.tasks) = n - 1
              /\ \A i \in 1..(k - 1) : after.tasks[i] = before.tasks[i]
              /\ \A i \in k..(n - 1) : after.tasks[i] = before.tasks[i + 1]
       [] c.op = "edit" ->
            /\ Len(after.tasks) = n
            /\ \A i \in 1..n :
                 /\ after.tasks[i].id = before.tasks[i].id
                 /\ after.tasks[i].status = before.tasks[i].status
                 /\ IF before.tasks[i].id = c.id
                    THEN /\ after.tasks[i].name = c.name
                         /\ after.tasks[i].code_pointer = c.code_pointer
                    ELSE after.tasks[i] = before.tasks[i]
       [] OTHER ->
            /\ Len(after.tasks) = n
            /\ \A i \in 1..n :
                 /\ after.tasks[i].id = before.tasks[i].id
                 /\ after.tasks[i].name = before.tasks[i].name
                 /\ after.tasks[i].code_pointer = before.tasks[i].code_pointer
                 /\ before.tasks[i].id # c.id => after.tasks[i] = before.tasks[i]

Absent(v) == v \in {None, ""}

\* C20: with every typed identifier non-empty, the persisted registry has
\* the PENDING and the DONE identifier both absent or both present in every
\* reachable state, and once it is CONFIGURED it stays CONFIGURED whatever
\* command runs next and however it ends.
C20_StaysConfigured ==
  [][/\ Absent(env'.pending) <=> Absent(env'.done)
     /\ Absent(env'.pending) => env' = NoEnv
     /\ ~Unconfigured(env) => ~Unconfigured(env')]_vars

\* a create_done_message on a configured registry whose sync then fails
C20_Witness ==
  /\ pc = "done"
  /\ Swapped
  /\ result = "SyncFailedTasks"
  /\ ~Unconfigured(env0)
  /\ ~Unconfigured(env)
  /\ env # env0


\* both invocations loaded before either wrote, and both have written
BothWrote ==
  /\ \A p \in Procs : inv[p].pc = "exited"
  /\ race.both
  /\ Len(race.order) = 2

StoreInvariant(d) ==
  /\ \A i, j \in 1..Len(d.tasks) : i # j => d.tasks[i].id # d.tasks[j].id
  /\ \A i \in 1..Len(d.tasks) : d.tasks[i].id <= d.last_id

\* C19: when two invocations both load the store before either writes it,
\* the store on disk after both have finished is exactly the one the later
\* writer wrote, and it satisfies the store invariant: no two tasks share an
\* id, no task id exceeds last_id, and last_id is not below the last_id
\* either invocation loaded.
C19_LastWriterWins ==
  BothWrote =>
    /\ FileOk
    /\ json = inv[race.order[2]].data
    /\ StoreInvariant(json)
    /\ \A p \in Procs : json.last_id >= inv[p].base.last_id

\* the same for the rounds in which the second open came after the first
\* writer had closed the file
C19_SerialWrites ==
  (BothWrote /\ ~race.overlap) =>
    /\ FileOk
    /\ json = inv[race.order[2]].data
    /\ StoreInvariant(json)
    /\ \A p \in Procs : json.last_id >= inv[p].base.last_id

====
